---- MODULE Spec2Model ----
(***************************************************************************)
(* State-machine model of hcvapi: a REST facade over the GCP secrets       *)
(* engine of Vault.                                                        *)
(*                                                                         *)
(*   main (src/config/vault.go:101-188)  the process: load settings, build *)
(*        the client, Initialize, HealthCheck, listen, serve, shut down    *)
(*   vault.Client (src/vault/initvault.go)  the gateway operations         *)
(*   handlers.Handler (src/unnamed/part_001:363-527)  the HTTP handlers    *)
(*                                                                         *)
(* Vault itself is outside the repository.  It is modelled as the state    *)
(* the gateway writes (mounts, gcp/config, the roleset keys) and, for each *)
(* call, an outcome drawn from the outcomes the api client can return.     *)
(* Texts that the code measures, trims or decodes (mount paths, JSON       *)
(* texts) are sequences of one-character strings.  main, the goroutine     *)
(* that listens and the goroutines of the requests run side by side: a     *)
(* handler's gateway call and its answer are two steps, and other requests *)
(* are handled between them.                                               *)
(***************************************************************************)
EXTENDS Integers, Sequences, FiniteSets, Bags, TLC

VARIABLES
    pc,            \* position of main: load, newclient, initialize, healthcheck, listen, serving, draining, exited
    runs,          \* number of process starts so far
    boot,          \* startup events of the current process, in order
    cfg,           \* the settings loaded by config.Load
    mounts,        \* upstream: the enabled mount paths, as ListMounts reports them
    engineConfig,  \* upstream: what is stored at gcp/config
    store,         \* upstream: the names stored under gcp/roleset/
    last,          \* the latest startup step, or the latest request that was answered: its inputs and its result
    calls,         \* the upstream calls issued by the operation last names, in order
    resp,          \* the HTTP response to the request last names
    mountCalls,    \* Mount calls issued so far, over all process starts
    mountOks,      \* Mount calls that succeeded so far
    live,          \* names whose latest successful create/delete response was a 201 create
    gone,          \* names whose latest successful create/delete response was a 200 delete
    inflight,      \* during server.Shutdown: requests accepted before it and not yet answered
    pending,       \* the requests whose gateway call returned and whose answer is not yet written
    serial         \* so far no gateway call was made while another request waited to answer, and none was left unanswered

vars == <<pc, runs, boot, cfg, mounts, engineConfig, store, last, calls, resp,
          mountCalls, mountOks, live, gone, inflight, pending, serial>>

\* ------------------------------------------------------------------ bounds

\* Process starts explored (a failed or stopped process may be started again).
MaxRuns == 2
\* Requests that can be in flight at a time.
MaxInFlight == 2

\* ------------------------------------------------------------- text helpers

GcpPath == <<"g", "c", "p">>
Slash == <<"/">>
GcpMountKey == GcpPath \o Slash
SecretMountKey == <<"s", "e", "c", "r", "e", "t", "/">>
GcpxMountKey == <<"g", "c", "p", "x", "/">>

\* strings.TrimSuffix
TrimSuffix(s, suffix) ==
    IF /\ Len(s) >= Len(suffix)
       /\ SubSeq(s, Len(s) - Len(suffix) + 1, Len(s)) = suffix
    THEN SubSeq(s, 1, Len(s) - Len(suffix))
    ELSE s

\* An error value: the chain of messages fmt.Errorf("...: %w", err) builds,
\* outermost first.  NoErr is Go's nil error.
NoErr == <<>>
Wrap(msg, err) == <<msg>> \o err
ErrText(e) == <<e>>

\* The error texts upstream can answer with.
UpstreamErr == ErrText("permission denied")
UnavailableErr == ErrText("Code: 503")
CtxErr == ErrText("context canceled")
FileErr == ErrText("no such file or directory")
DuplicateMountErr == ErrText("path is already in use at gcp/")

NoData == [none |-> TRUE]
NoResp == [status |-> 0]
NoPending == EmptyBag

\* One call of the api client; a path is its segments.  resent: the api
\* client sent the request to upstream more than once.
Call(op, path, data, err) ==
    [op |-> op, path |-> path, data |-> data, err |-> err, resent |-> FALSE]

\* ------------------------------------------------------------------ config

DefaultScopes == "https://www.googleapis.com/auth/cloud-platform"

\* config.Load: the settings (defaults, file, environment).  Only the GCP
\* fields the gateway reads vary.
Setting(path, scopes, ttl) ==
    [ServiceAccountPath |-> path, DefaultTokenScopes |-> scopes, DefaultTTL |-> ttl,
     MaxTTL |-> "7200s", DisableAutomatedRotation |-> FALSE]
Settings == {Setting("", DefaultScopes, "3600s"), Setting("/sa.json", DefaultScopes, "1800s")}

NoSettings == [none |-> TRUE]

\* ---------------------------------------------------------------- gateway

\* Client.Initialize, lines 85-91: the scan of the mount listing.
GcpMountExistsNoTrim(listing) == \E path \in listing : path = GcpPath
GcpMountExists(listing) == \E path \in listing : TrimSuffix(path, Slash) = GcpPath

\* Client.configureGCPEngine, lines 118-131: the configuration object.
ConfigData(c, credentials) ==
    [k \in {"ttl", "max_ttl", "disable_automated_rotation"}
           \cup (IF c.ServiceAccountPath # "" THEN {"credentials"} ELSE {}) |->
        CASE k = "ttl" -> c.DefaultTTL
          [] k = "max_ttl" -> c.MaxTTL
          [] k = "disable_automated_rotation" -> c.DisableAutomatedRotation
          [] k = "credentials" -> credentials]

\* The contents of the credentials file, when it can be read.
CredentialsFile == "{\"type\":\"service_account\"}"

\* Client.configureGCPEngine: the calls it issues and the error it returns.
\* readErr: ioutil.ReadFile fails; writeErr: the write to gcp/config fails.
ConfigureCalls(c, readErr, writeErr) ==
    IF c.ServiceAccountPath # "" /\ readErr
    THEN <<>>
    ELSE <<Call("Write", <<"gcp", "config">>, ConfigData(c, CredentialsFile),
                IF writeErr THEN UpstreamErr ELSE NoErr)>>

ConfigureResult(c, readErr, writeErr) ==
    IF c.ServiceAccountPath # "" /\ readErr
    THEN Wrap("failed to read service account file", FileErr)
    ELSE IF writeErr
         THEN Wrap("failed to configure GCP engine", UpstreamErr)
         ELSE NoErr

\* Upstream's answer to Mount("gcp"): it rejects a duplicate mount.
MountOutcome(mountErr) ==
    IF GcpMountKey \in mounts THEN DuplicateMountErr
    ELSE IF mountErr THEN UpstreamErr ELSE NoErr

\* Client.Initialize, lines 93-104: is Mount called, given the listing.
MountNeededAlways(listing) == TRUE
MountNeeded(listing) == ~GcpMountExists(listing)

\* Client.Initialize: the upstream calls it issues, in order.
InitializeCallsConfigureNewMount(c, listErr, mountErr, readErr, writeErr) ==
    LET list == Call("ListMounts", <<"sys", "mounts">>, NoData,
                     IF listErr THEN UpstreamErr ELSE NoErr)
        mount == Call("Mount", <<"gcp">>, [Type |-> "gcp"], MountOutcome(mountErr))
    IN  IF listErr THEN <<list>>
        ELSE IF MountNeeded(mounts)
             THEN IF mount.err # NoErr
                  THEN <<list, mount>>
                  ELSE <<list, mount>> \o ConfigureCalls(c, readErr, writeErr)
             ELSE <<list>>
InitializeCalls(c, listErr, mountErr, readErr, writeErr) ==
    LET list == Call("ListMounts", <<"sys", "mounts">>, NoData,
                     IF listErr THEN UpstreamErr ELSE NoErr)
        mount == Call("Mount", <<"gcp">>, [Type |-> "gcp"], MountOutcome(mountErr))
    IN  IF listErr THEN <<list>>
        ELSE IF MountNeeded(mounts)
             THEN IF mount.err # NoErr
                  THEN <<list, mount>>
                  ELSE <<list, mount>> \o ConfigureCalls(c, readErr, writeErr)
             ELSE <<list>> \o ConfigureCalls(c, readErr, writeErr)

\* Client.Initialize: the error it returns.
InitializeResult(c, listErr, mountErr, readErr, writeErr) ==
    IF listErr THEN Wrap("failed to list mounts", UpstreamErr)
    ELSE IF MountNeeded(mounts) /\ MountOutcome(mountErr) # NoErr
         THEN Wrap("failed to enable GCP secrets engine", MountOutcome(mountErr))
         ELSE IF ConfigureResult(c, readErr, writeErr) # NoErr
              THEN Wrap("failed to configure GCP engine",
                        ConfigureResult(c, readErr, writeErr))
              ELSE NoErr

\* Client.HealthCheck: the error it returns.  ctxDone: the context passed in
\* is already cancelled or expired, so the probe call is aborted.
HealthCheckResultIgnoreSealed(ctxDone, probeErr, initialized, sealed) ==
    IF ctxDone THEN Wrap("vault health check failed", CtxErr)
    ELSE IF probeErr THEN Wrap("vault health check failed", UpstreamErr)
    ELSE IF ~initialized
         THEN <<"vault is not ready", initialized, sealed>>
         ELSE NoErr
HealthCheckResult(ctxDone, probeErr, initialized, sealed) ==
    IF ctxDone THEN Wrap("vault health check failed", CtxErr)
    ELSE IF probeErr THEN Wrap("vault health check failed", UpstreamErr)
    ELSE IF ~initialized \/ sealed
         THEN <<"vault is not ready", initialized, sealed>>
         ELSE NoErr

HealthCall(ctxDone, probeErr, initialized, sealed) ==
    Call("Health", <<"sys", "health">>,
         [initialized |-> initialized, sealed |-> sealed],
         IF ctxDone THEN CtxErr ELSE IF probeErr THEN UpstreamErr ELSE NoErr)

\* --------------------------------------------------------------------- main

\* main: where the process goes after each startup step (logger.Fatal exits).
AfterLoad(err) == IF err # NoErr THEN "exited" ELSE "newclient"
AfterNewClient(err) == IF err # NoErr THEN "exited" ELSE "initialize"
AfterInitialize(err) == IF err # NoErr THEN "exited" ELSE "healthcheck"
AfterHealthCheckLenient(err) == "listen"
AfterHealthCheck(err) == IF err # NoErr THEN "exited" ELSE "listen"
AfterListen(err) == IF err # NoErr THEN "exited" ELSE "serving"

Event(step, err) == [step |-> step, ok |-> (err = NoErr)]

Init ==
    /\ pc = "load"
    /\ runs = 1
    /\ boot = <<>>
    /\ cfg = NoSettings
    /\ mounts \in {{SecretMountKey, GcpxMountKey},
                   {SecretMountKey, GcpxMountKey, GcpMountKey}}
    /\ engineConfig = NoData
    /\ store = {}
    /\ last = [kind |-> "none"]
    /\ calls = <<>>
    /\ resp = NoResp
    /\ mountCalls = 0
    /\ mountOks = 0
    /\ live = {}
    /\ gone = {}
    /\ inflight = 0
    /\ pending = NoPending
    /\ serial = TRUE

\* main, lines 107-111: config.Load.
Load(c, failed) ==
    /\ pc = "load"
    /\ LET err == IF failed THEN ErrText("failed to read config file") ELSE NoErr
       IN  /\ pc' = AfterLoad(err)
           /\ boot' = Append(boot, Event("Load", err))
           /\ cfg' = IF failed THEN NoSettings ELSE c
           /\ last' = [kind |-> "Load", result |-> err]
    /\ calls' = <<>>
    /\ UNCHANGED <<runs, mounts, engineConfig, store, resp, mountCalls, mountOks,
                   live, gone, inflight, pending, serial>>

\* main, lines 119-123: vault.NewClient.
NewClient(failed) ==
    /\ pc = "newclient"
    /\ LET err == IF failed
                  THEN Wrap("failed to create vault client", ErrText("invalid address"))
                  ELSE NoErr
       IN  /\ pc' = AfterNewClient(err)
           /\ boot' = Append(boot, Event("NewClient", err))
           /\ last' = [kind |-> "NewClient", result |-> err]
    /\ calls' = <<>>
    /\ UNCHANGED <<runs, cfg, mounts, engineConfig, store, resp, mountCalls,
                   mountOks, live, gone, inflight, pending, serial>>

\* main, lines 125-131: Client.Initialize, whole.
Initialize(listErr, mountErr, readErr, writeErr) ==
    /\ pc = "initialize"
    /\ LET cs == InitializeCalls(cfg, listErr, mountErr, readErr, writeErr)
           err == InitializeResult(cfg, listErr, mountErr, readErr, writeErr)
           mounted == \E i \in 1..Len(cs) : cs[i].op = "Mount" /\ cs[i].err = NoErr
           mountTried == \E i \in 1..Len(cs) : cs[i].op = "Mount"
           written == \E i \in 1..Len(cs) :
                         cs[i].op = "Write" /\ cs[i].path = <<"gcp", "config">> /\ cs[i].err = NoErr
       IN  /\ calls' = cs
           /\ pc' = AfterInitialize(err)
           /\ boot' = Append(boot, Event("Initialize", err))
           /\ last' = [kind |-> "Initialize", result |-> err,
                       listing |-> IF listErr THEN {} ELSE mounts,
                       listed |-> ~listErr,
                       credentialsRead |-> ~(cfg.ServiceAccountPath # "" /\ readErr)]
           /\ mounts' = IF mounted THEN mounts \cup {GcpMountKey} ELSE mounts
           /\ engineConfig' = IF written
                              THEN ConfigData(cfg, CredentialsFile)
                              ELSE engineConfig
           /\ mountCalls' = mountCalls + (IF mountTried THEN 1 ELSE 0)
           /\ mountOks' = mountOks + (IF mounted THEN 1 ELSE 0)
    /\ UNCHANGED <<runs, cfg, store, resp, live, gone, inflight, pending, serial>>

\* main, lines 133-136: the initial Client.HealthCheck.
StartupHealthCheck(ctxDone, probeErr, initialized, sealed) ==
    /\ pc = "healthcheck"
    /\ LET err == HealthCheckResult(ctxDone, probeErr, initialized, sealed)
       IN  /\ pc' = AfterHealthCheck(err)
           /\ boot' = Append(boot, Event("HealthCheck", err))
           /\ last' = [kind |-> "HealthCheck", result |-> err,
                       ctxDone |-> ctxDone, probeErr |-> probeErr,
                       initialized |-> initialized, sealed |-> sealed]
    /\ calls' = <<HealthCall(ctxDone, probeErr, initialized, sealed)>>
    /\ UNCHANGED <<runs, cfg, mounts, engineConfig, store, resp, mountCalls,
                   mountOks, live, gone, inflight, pending, serial>>

\* main, lines 152-167: server.ListenAndServe, started in its own goroutine
\* while main goes on to wait for a signal, returns.  It returns an error when
\* the address cannot be bound and, once the server listens, when accepting
\* fails; logger.Fatal then ends the process, whatever requests are in flight.
\* Otherwise the listener is bound and the server serves.  After
\* server.Shutdown it returns http.ErrServerClosed, which line 164 lets pass.
ListenErr(bound, failed) ==
    IF ~failed THEN NoErr
    ELSE IF bound THEN ErrText("accept: too many open files")
    ELSE ErrText("address already in use")
ListenAndServe(failed) ==
    /\ pc = "listen" \/ (pc = "serving" /\ failed)
    /\ LET err == ListenErr(pc = "serving", failed)
       IN  /\ pc' = AfterListen(err)
           /\ boot' = Append(boot, Event(IF pc = "listen" THEN "Listen" ELSE "Serve", err))
           /\ last' = [kind |-> "Listen", result |-> err]
    /\ calls' = <<>>
    /\ pending' = NoPending
    /\ serial' = (serial /\ pending = NoPending)
    /\ UNCHANGED <<runs, cfg, mounts, engineConfig, store, resp, mountCalls,
                   mountOks, live, gone, inflight>>

\* main, lines 171-183: a termination signal arrives while n requests are
\* being handled; main calls server.Shutdown, which closes the listener and
\* waits for the requests in flight.  main waits for the signal as soon as the
\* goroutine is started, so the signal may come before the listener is bound;
\* no request is in flight then.
AfterSignalAbrupt == "exited"
AfterSignal == "draining"
Signal(n) ==
    /\ pc \in {"listen", "serving"}
    /\ pc = "listen" => n = 0
    /\ n >= BagCardinality(pending)
    /\ pc' = AfterSignal
    /\ inflight' = n
    /\ last' = [kind |-> "Signal", inflight |-> n]
    /\ calls' = <<>>
    /\ UNCHANGED <<runs, boot, cfg, mounts, engineConfig, store, resp, mountCalls,
                   mountOks, live, gone, pending, serial>>

\* main, lines 183-187: server.Shutdown returns nil once no request is in
\* flight and main returns; when its 30 s context expires first it returns
\* the context's error and logger.Fatal ends the process, the requests still
\* in flight staying unanswered.
ShutdownResult(expired) == IF expired THEN ErrText("context deadline exceeded") ELSE NoErr
Shutdown(expired) ==
    /\ pc = "draining"
    /\ expired <=> inflight > 0
    /\ pc' = "exited"
    /\ inflight' = 0
    /\ pending' = NoPending
    /\ boot' = Append(boot, Event("Shutdown", ShutdownResult(expired)))
    /\ last' = [kind |-> "Shutdown", result |-> ShutdownResult(expired),
                unanswered |-> inflight]
    /\ calls' = <<>>
    /\ serial' = (serial /\ pending = NoPending)
    /\ UNCHANGED <<runs, cfg, mounts, engineConfig, store, resp, mountCalls,
                   mountOks, live, gone>>

\* The operator starts the program again; upstream keeps its state.
Restart ==
    /\ pc = "exited"
    /\ runs < MaxRuns
    /\ runs' = runs + 1
    /\ pc' = "load"
    /\ boot' = <<>>
    /\ cfg' = NoSettings
    /\ last' = [kind |-> "none"]
    /\ calls' = <<>>
    /\ resp' = NoResp
    /\ UNCHANGED <<mounts, engineConfig, store, mountCalls, mountOks, live, gone,
                   inflight, pending, serial>>

\* ---------------------------------------------------------------- requests

\* A handler runs for a request the listener accepted: any request while the
\* server listens, a request still in flight once server.Shutdown was called.
\* Each request runs in its own goroutine, beside the others that wait to
\* answer.
Handling ==
    \/ pc = "serving" /\ BagCardinality(pending) < MaxInFlight
    \/ pc = "draining" /\ BagCardinality(pending) < inflight
AfterAnswer == IF pc = "draining" THEN inflight - 1 ELSE inflight

Response(status, body) == [status |-> status, body |-> body]

\* The last segment of a request's path: a roleset name, or "" for a path
\* that ends at the slash.
Names == {"", "r1"}
NameOrder == <<"r1", "r2">>

\* setupRoutes, lines 201-214: the routes that take a name are registered as
\* "/:name", which an empty segment does not match: the router answers such a
\* request itself, with 404, and no handler runs.
Routed(name) == name # ""
NotFoundResponse == Response(404, [text |-> "404 page not found"])

\* The bindings member of a body: none, a JSON object, kept as its set of
\* key/value pairs, or a JSON string, kept as its characters.
\* RolesetRequest.Bindings (src/vault/initvault.go:38) is a map: nil for a
\* body without the member, the mapping for an object; a string does not
\* decode into it.
NilBindings == [kind |-> "nil"]
MapBindings(m) == [kind |-> "map", pairs |-> m]
TextBindings(t) == [kind |-> "text", text |-> t]
\* Client.CreateRoleset, line 156: len(req.Bindings); the len of a nil map is 0.
BindingsLen(b) == IF b.kind = "map" THEN Cardinality(b.pairs) ELSE 0

\* JSON texts, as characters.
RoleObjectText == <<"{", "\"", "r", "\"", ":", "1", "}">>

\* The JSON body of a create request.  json is "object" for a body that
\* parses as a JSON object, "malformed" otherwise; an absent string field
\* decodes to "".
SecretTypes == {"access_token", "service_account_key"}
SuppliedBindings == {NilBindings, MapBindings({}), MapBindings({<<"r", 1>>})}
PlainBody(parsed, proj, secretType, supplied) ==
    [ttl |-> "", json |-> parsed, project |-> proj, bindings |-> supplied,
     secret_type |-> secretType, token_scopes |-> "", max_ttl |-> ""]
ExampleBody == PlainBody("object", "p", "access_token", NilBindings)
ValidCreateBodies ==
    {ExampleBody,
     PlainBody("object", "p", "service_account_key", MapBindings({})),
     PlainBody("object", "p", "access_token", MapBindings({<<"r", 1>>})),
     [ttl |-> "600s", json |-> "object", project |-> "p",
      bindings |-> NilBindings, secret_type |-> "access_token",
      token_scopes |-> "custom-scope", max_ttl |-> ""],
     [ttl |-> "", json |-> "object", project |-> "p",
      bindings |-> MapBindings({<<"r", 1>>}),
      secret_type |-> "service_account_key",
      token_scopes |-> "", max_ttl |-> "1200s"]}
InvalidCreateBodies ==
    {PlainBody("malformed", "", "", NilBindings),
     PlainBody("object", "", "access_token", NilBindings),
     PlainBody("object", "p", "", MapBindings({<<"r", 1>>})),
     PlainBody("object", "p", "bogus", NilBindings),
     PlainBody("object", "p", "ACCESS_TOKEN", MapBindings({})),
     PlainBody("object", "p", "access_token", TextBindings(RoleObjectText))}

\* The request values the gateway's CreateRoleset is given when called directly.
GatewayRequests ==
    [ttl : {"", "600s"}, json : {"object"}, project : {"p"},
     bindings : SuppliedBindings, secret_type : SecretTypes,
     token_scopes : {"", "custom-scope"}, max_ttl : {"", "1200s"}]

\* c.ShouldBindJSON(&req) on RolesetRequest: the JSON decode, which fails on
\* a text that is not JSON and on a bindings member that is not an object,
\* then the binding tags required / oneof (src/vault/initvault.go:34-41).
BindError(body) ==
    IF body.json # "object" THEN ErrText("invalid character")
    ELSE IF body.bindings.kind = "text"
         THEN ErrText("json: cannot unmarshal string into Go struct field RolesetRequest.bindings")
    ELSE IF body.project = "" THEN ErrText("Project: failed on the 'required' tag")
    ELSE IF body.secret_type = "" THEN ErrText("SecretType: failed on the 'required' tag")
    ELSE IF body.secret_type \notin SecretTypes
         THEN ErrText("SecretType: failed on the 'oneof' tag")
         ELSE NoErr

\* Client.CreateRoleset, lines 145-166: the payload written upstream.
\* Lines 150-154: is token_scopes set.
ScopesIncludedAlways(req) == TRUE
ScopesIncluded(req) == req.token_scopes # "" \/ req.secret_type = "access_token"
\* Line 156: is bindings set.
BindingsIncludedNonNil(req) == req.bindings.kind # "nil"
BindingsIncluded(req) == req.bindings.kind # "nil" /\ BindingsLen(req.bindings) > 0

RolesetData(c, req) ==
    [k \in {"project", "secret_type"}
           \cup (IF ScopesIncluded(req) THEN {"token_scopes"} ELSE {})
           \cup (IF BindingsIncluded(req) THEN {"bindings"} ELSE {})
           \cup (IF req.ttl # "" THEN {"ttl"} ELSE {})
           \cup (IF req.max_ttl # "" THEN {"max_ttl"} ELSE {}) |->
        CASE k = "project" -> req.project
          [] k = "secret_type" -> req.secret_type
          [] k = "token_scopes" ->
                IF req.token_scopes # "" THEN req.token_scopes ELSE c.DefaultTokenScopes
          [] k = "bindings" -> req.bindings
          [] k = "ttl" -> req.ttl
          [] k = "max_ttl" -> req.max_ttl]

RolesetPath(name) == <<"gcp", "roleset", name>>
\* Upstream: the roleset keys after a write or a delete that succeeded.
StoreAfterWrite(path) ==
    IF Len(path) = 3 /\ SubSeq(path, 1, 2) = <<"gcp", "roleset">>
    THEN store \cup {path[3]} ELSE store
StoreAfterDelete(path) ==
    IF Len(path) = 3 /\ SubSeq(path, 1, 2) = <<"gcp", "roleset">>
    THEN store \ {path[3]} ELSE store
TokenPath(name) == <<"gcp", "token", name>>
KeyPath(name) == <<"gcp", "key", name>>

\* The conditions a request is handled under: "ctxdone", the request's
\* context is cancelled or expired when the gateway is called; "error",
\* upstream refuses the call; "unavailable", upstream answers it with a 503;
\* the others, the shape of the secret the api client returns ("none":
\* upstream's own answer; "emptytoken": its answer with an empty token).
WriteConds == {"none", "error", "ctxdone", "unavailable"}
ReadConds == {"none", "error", "ctxdone", "unavailable", "nilsecret", "nildata", "badfield"}
ListConds == {"none", "error", "ctxdone", "unavailable", "nilsecret", "nildata", "nokeys",
              "badelem"}
HealthConds == {"none", "error", "ctxdone"}
ReqDone(cond) == cond = "ctxdone"

\* The error an upstream call returns: the context error when the context it
\* is given is already done, upstream's error on a fault.
CallErr(ctxDone, fault) ==
    IF ctxDone THEN CtxErr
    ELSE IF fault = "error" THEN UpstreamErr
    ELSE IF fault = "unavailable" THEN UnavailableErr
    ELSE NoErr

\* NewClient, lines 44-63: the api client is built from api.DefaultConfig()
\* and NewClient sets its address, TLS, token and namespace only, so it keeps
\* its default retries: a request upstream answers with a 5xx is sent again
\* before the error is returned.  A call whose context is done is not sent.
Resent(ctxDone, fault) == ~ctxDone /\ fault = "unavailable"
UpstreamCall(op, path, data, ctxDone, fault) ==
    [Call(op, path, data, CallErr(ctxDone, fault)) EXCEPT !.resent = Resent(ctxDone, fault)]

\* Client.CreateRoleset: the call and the error returned.
CreateRolesetCall(c, name, req, ctxDone, fault) ==
    UpstreamCall("Write", RolesetPath(name), RolesetData(c, req), ctxDone, fault)
CreateRolesetResult(c, name, req, ctxDone, fault) ==
    IF CallErr(ctxDone, fault) # NoErr
    THEN Wrap("failed to create roleset", CallErr(ctxDone, fault))
    ELSE NoErr

\* Client.DeleteRoleset.
DeleteRolesetCallNoName(name, ctxDone, fault) ==
    UpstreamCall("Delete", <<"gcp", "roleset">>, NoData, ctxDone, fault)
DeleteRolesetCall(name, ctxDone, fault) ==
    UpstreamCall("Delete", RolesetPath(name), NoData, ctxDone, fault)
DeleteRolesetResultSwallowed(name, ctxDone, fault) == NoErr
DeleteRolesetResult(name, ctxDone, fault) ==
    IF CallErr(ctxDone, fault) # NoErr
    THEN Wrap("failed to delete roleset", CallErr(ctxDone, fault))
    ELSE NoErr

\* The secret a read of gcp/token/{name} or gcp/key/{name} returns: "nil" (no
\* secret), "nildata", "badfield" (a field missing or of another type) or
\* "ok".  Upstream answers for a stored roleset and has nothing for others.
SecretShape(name, fault) ==
    CASE fault \in {"nilsecret", "nildata", "badfield"} ->
            (IF fault = "nilsecret" THEN "nil" ELSE fault)
      [] OTHER -> IF name \in store THEN "ok" ELSE "nil"

\* Client.GetToken, lines 204-208: the fields of the secret, as upstream
\* returned them; the token is copied whatever it is.
UpstreamToken(fault) == IF fault = "emptytoken" THEN "" ELSE "ya29.c0"
TokenData(fault) ==
    [token |-> UpstreamToken(fault), token_ttl |-> "59m59s",
     expires_at_seconds |-> 1758020274]
KeyData == [private_key_data |-> "a2V5", key_algorithm |-> "KEY_ALG_RSA_2048",
            key_type |-> "TYPE_GOOGLE_CREDENTIALS_FILE", key_id |-> "k1"]

\* The outcome of a gateway read: [err, panic, value].
Outcome(err, panic, value) == [err |-> err, panic |-> panic, value |-> value]

\* Client.GetToken, lines 180-194: a write carrying the ttl, or a plain read.
GetTokenCall(name, ttl, ctxDone, fault) ==
    IF ttl # ""
    THEN UpstreamCall("Write", TokenPath(name), [ttl |-> ttl], ctxDone, fault)
    ELSE UpstreamCall("Read", TokenPath(name), NoData, ctxDone, fault)

\* Client.GetToken, lines 196-211.
GetTokenResultEmptyOk(name, ttl, ctxDone, fault) ==
    IF CallErr(ctxDone, fault) # NoErr
    THEN Outcome(Wrap("failed to get access token", CallErr(ctxDone, fault)), FALSE, NoData)
    ELSE IF SecretShape(name, fault) \in {"nil", "nildata"}
         THEN Outcome(NoErr, FALSE, [token |-> "", token_ttl |-> "", expires_at_seconds |-> 0])
         ELSE IF SecretShape(name, fault) = "badfield"
              THEN Outcome(NoErr, TRUE, NoData)
              ELSE Outcome(NoErr, FALSE, TokenData(fault))
GetTokenResult(name, ttl, ctxDone, fault) ==
    IF CallErr(ctxDone, fault) # NoErr
    THEN Outcome(Wrap("failed to get access token", CallErr(ctxDone, fault)), FALSE, NoData)
    ELSE IF SecretShape(name, fault) \in {"nil", "nildata"}
         THEN Outcome(ErrText("no token data returned"), FALSE, NoData)
         ELSE IF SecretShape(name, fault) = "badfield"
              THEN Outcome(NoErr, TRUE, NoData)
              ELSE Outcome(NoErr, FALSE, TokenData(fault))

\* Client.GetServiceAccountKey.
GetServiceAccountKeyCall(name, ctxDone, fault) ==
    UpstreamCall("Read", KeyPath(name), NoData, ctxDone, fault)
GetServiceAccountKeyResultUnchecked(name, ctxDone, fault) ==
    IF CallErr(ctxDone, fault) # NoErr
    THEN Outcome(Wrap("failed to get service account key", CallErr(ctxDone, fault)),
                 FALSE, NoData)
    ELSE IF SecretShape(name, fault) \in {"nil", "nildata"}
         THEN Outcome(ErrText("no key data returned"), FALSE, NoData)
         ELSE Outcome(NoErr, FALSE, KeyData)
GetServiceAccountKeyResult(name, ctxDone, fault) ==
    IF CallErr(ctxDone, fault) # NoErr
    THEN Outcome(Wrap("failed to get service account key", CallErr(ctxDone, fault)),
                 FALSE, NoData)
    ELSE IF SecretShape(name, fault) \in {"nil", "nildata"}
         THEN Outcome(ErrText("no key data returned"), FALSE, NoData)
         ELSE IF SecretShape(name, fault) = "badfield"
              THEN Outcome(NoErr, TRUE, NoData)
              ELSE Outcome(NoErr, FALSE, KeyData)

\* The secret a list of gcp/roleset returns: upstream has no secret when
\* nothing is stored, else the stored names under "keys", in order.
StoredKeys == SelectSeq(NameOrder, LAMBDA n : n \in store)
ListShape(fault) ==
    CASE fault \in {"nilsecret", "nildata", "nokeys", "badelem"} ->
            (IF fault = "nilsecret" THEN "nil" ELSE fault)
      [] OTHER -> IF store = {} THEN "nil" ELSE "ok"

\* Client.ListRolesets.
ListRolesetsCall(ctxDone, fault) ==
    UpstreamCall("List", <<"gcp", "roleset">>, NoData, ctxDone, fault)
ListRolesetsResult(ctxDone, fault) ==
    IF CallErr(ctxDone, fault) # NoErr
    THEN Outcome(Wrap("failed to list rolesets", CallErr(ctxDone, fault)), FALSE, <<>>)
    ELSE IF ListShape(fault) \in {"nil", "nildata", "nokeys"}
         THEN Outcome(NoErr, FALSE, <<>>)
         ELSE IF ListShape(fault) = "badelem" THEN Outcome(NoErr, TRUE, <<>>)
         ELSE Outcome(NoErr, FALSE, StoredKeys)

\* Handler.ErrorHandlingMiddleware: the response written after a panic.
PanicResponse == Response(500, [error |-> "Internal server error"])

\* The context a handler passes to the gateway, given whether the request's
\* context is done: context.WithTimeout(c.Request.Context(), ...) is done when
\* the request's is; context.Background() never is.
RequestContext(reqDone) == reqDone
BackgroundContext(reqDone) == FALSE

\* Handler.CreateRoleset, line 405: the context given to Client.CreateRoleset.
CreateRolesetContext(reqDone) == BackgroundContext(reqDone)

\* Handler.CreateRoleset, lines 395-403: req.Bindings is decoded as a JSON
\* text into a fresh map, a failure being answered 400, and the map is stored
\* back as a text.  The lines are written for a text and req.Bindings is the
\* declared map, so the source does not settle what they do to a request that
\* was bound: under "baddecode" the decode of line 397 fails; otherwise
\* req.Bindings holds the supplied mapping, or the empty map of line 396 for
\* a body without bindings.
BindingsError(body, cond) == cond = "baddecode"
Reencoded(body) ==
    [body EXCEPT !.bindings =
        MapBindings(IF body.bindings.kind = "map" THEN body.bindings.pairs ELSE {})]

\* Handler.CreateRoleset: does the request reach the gateway.
CreateReachesGatewayUnchecked(name, body, cond) == name # ""
CreateReachesGateway(name, body, cond) ==
    name # "" /\ BindError(body) = NoErr /\ ~BindingsError(body, cond)

\* Handler.CreateRoleset: the response.
CreateRolesetResponse(name, body, cond, err) ==
    IF name = "" THEN Response(400, [error |-> <<"Roleset name required">>])
    ELSE IF BindError(body) # NoErr THEN Response(400, [error |-> BindError(body)])
    ELSE IF BindingsError(body, cond)
         THEN Response(400, [error |-> <<"Invalid bindings format">>])
    ELSE IF err # NoErr THEN Response(500, [error |-> err])
    ELSE Response(201, [message |-> "Roleset created successfully"])

\* A handler runs in the goroutine of its request.  One that calls the gateway
\* waits there for upstream while main, the listener and the other requests
\* go on: what upstream did is done when the call returns, and the answer is
\* written afterwards, unless the process ends first.  A request that is
\* rejected is answered at once.  last, calls and resp describe the latest
\* request that was answered.
InFlight(request, cs, r) == [request |-> request, calls |-> cs, resp |-> r]
Handle(request, reaches, cs, r) ==
    IF reaches
    THEN /\ pending' = pending (+) SetToBag({InFlight(request, cs, r)})
         /\ last' = [kind |-> "Upstream"]
         /\ calls' = <<>>
         /\ resp' = NoResp
         /\ inflight' = inflight
         /\ serial' = (serial /\ pending = NoPending)
    ELSE /\ pending' = pending
         /\ last' = request
         /\ calls' = cs
         /\ resp' = r
         /\ inflight' = AfterAnswer
         /\ serial' = serial

\* A handler whose gateway call returned writes its answer (c.JSON, or the
\* recovery wrapper after a panic): any one of those waiting.
Answer(q) ==
    /\ BagIn(q, pending)
    /\ last' = q.request
    /\ calls' = q.calls
    /\ resp' = q.resp
    /\ pending' = pending (-) SetToBag({q})
    /\ inflight' = AfterAnswer
    /\ LET kind == q.request.kind
           status == q.resp.status
           name == q.request.name
       IN  /\ live' = CASE kind = "CreateRoleset" /\ status = 201 -> live \cup {name}
                        [] kind = "DeleteRoleset" /\ status = 200 -> live \ {name}
                        [] OTHER -> live
           /\ gone' = CASE kind = "CreateRoleset" /\ status = 201 -> gone \ {name}
                        [] kind = "DeleteRoleset" /\ status = 200 -> gone \cup {name}
                        [] OTHER -> gone
    /\ UNCHANGED <<pc, runs, boot, cfg, mounts, engineConfig, store, mountCalls,
                   mountOks, serial>>

\* POST /api/v1/rolesets/:name
CreateRoleset(name, body, cond) ==
    /\ Handling
    /\ LET reaches == Routed(name) /\ CreateReachesGateway(name, body, cond)
           req == Reencoded(body)
           ctxDone == CreateRolesetContext(ReqDone(cond))
           call == CreateRolesetCall(cfg, name, req, ctxDone, cond)
           err == IF reaches THEN CreateRolesetResult(cfg, name, req, ctxDone, cond)
                  ELSE NoErr
       IN  /\ Handle([kind |-> "CreateRoleset", name |-> name, body |-> body,
                      cond |-> cond],
                     reaches, IF reaches THEN <<call>> ELSE <<>>,
                     IF Routed(name) THEN CreateRolesetResponse(name, body, cond, err)
                     ELSE NotFoundResponse)
           /\ store' = IF reaches /\ err = NoErr THEN StoreAfterWrite(call.path) ELSE store
    /\ UNCHANGED <<pc, runs, boot, cfg, mounts, engineConfig, mountCalls, mountOks,
                   live, gone>>

\* Handler.GetAccessToken, lines 423-425: the optional body and the ttl that
\* c.ShouldBindJSON(&tokenReq) leaves in tokenReq, its error being dropped.
\* json is "none" for no body (the decode fails at end of input), "malformed"
\* for a text that is not JSON (nothing is stored), "object" for an object
\* that decodes, and "typeerror" for an object whose ttl member is stored and
\* which has a later member of the wrong type, as {"ttl":"600s","ttl":5}: the
\* decode stores what fits and returns the error of the member that does not.
NoBody == [ttl |-> "", json |-> "none"]
TokenBodies == {NoBody, [ttl |-> "600s", json |-> "malformed"],
                [ttl |-> "", json |-> "object"], [ttl |-> "600s", json |-> "object"],
                [ttl |-> "600s", json |-> "typeerror"]}
TokenDecodes(body) == body.json = "object"
TokenTTL(body) == IF body.json \in {"object", "typeerror"} THEN body.ttl ELSE ""

\* Handler.GetAccessToken: the response.
GetAccessTokenResponse(name, out) ==
    IF name = "" THEN Response(400, [error |-> "Roleset name is required"])
    ELSE IF out.panic THEN PanicResponse
    ELSE IF out.err # NoErr
         THEN Response(500, [error |-> "Failed to generate access token",
                             details |-> out.err])
    ELSE Response(200, [message |-> "Access token generated successfully",
                        data |-> out.value])

\* POST /api/v1/tokens/:name
GetAccessToken(name, body, cond) ==
    /\ Handling
    /\ LET reaches == Routed(name) /\ name # ""
           ctxDone == RequestContext(ReqDone(cond))
           out == IF reaches THEN GetTokenResult(name, TokenTTL(body), ctxDone, cond)
                  ELSE Outcome(NoErr, FALSE, NoData)
       IN  Handle([kind |-> "GetAccessToken", name |-> name, body |-> body,
                   cond |-> cond, secret |-> SecretShape(name, cond)],
                  reaches,
                  IF reaches THEN <<GetTokenCall(name, TokenTTL(body), ctxDone, cond)>>
                  ELSE <<>>,
                  IF Routed(name) THEN GetAccessTokenResponse(name, out)
                  ELSE NotFoundResponse)
    /\ UNCHANGED <<pc, runs, boot, cfg, mounts, engineConfig, store, mountCalls,
                   mountOks, live, gone>>

\* Handler.GetServiceAccountKey: the response.
GetServiceAccountKeyResponse(name, out) ==
    IF name = "" THEN Response(400, [error |-> "Roleset name is required"])
    ELSE IF out.panic THEN PanicResponse
    ELSE IF out.err # NoErr
         THEN Response(500, [error |-> "Failed to generate service account key",
                             details |-> out.err])
    ELSE Response(200, [message |-> "Service account key generated successfully",
                        data |-> out.value])

\* POST /api/v1/keys/:name
GetServiceAccountKey(name, cond) ==
    /\ Handling
    /\ LET reaches == Routed(name) /\ name # ""
           ctxDone == RequestContext(ReqDone(cond))
           out == IF reaches THEN GetServiceAccountKeyResult(name, ctxDone, cond)
                  ELSE Outcome(NoErr, FALSE, NoData)
       IN  Handle([kind |-> "GetServiceAccountKey", name |-> name, cond |-> cond,
                   secret |-> SecretShape(name, cond)],
                  reaches,
                  IF reaches THEN <<GetServiceAccountKeyCall(name, ctxDone, cond)>>
                  ELSE <<>>,
                  IF Routed(name) THEN GetServiceAccountKeyResponse(name, out)
                  ELSE NotFoundResponse)
    /\ UNCHANGED <<pc, runs, boot, cfg, mounts, engineConfig, store, mountCalls,
                   mountOks, live, gone>>

\* Handler.ListRolesets: the response.
ListRolesetsResponse(out) ==
    IF out.panic THEN PanicResponse
    ELSE IF out.err # NoErr
         THEN Response(500, [error |-> "Failed to list rolesets", details |-> out.err])
    ELSE Response(200, [message |-> "Rolesets retrieved successfully",
                        data |-> [rolesets |-> out.value, count |-> Len(out.value)]])

\* GET /api/v1/rolesets
ListRolesets(cond) ==
    /\ Handling
    /\ LET ctxDone == RequestContext(ReqDone(cond))
       IN  Handle([kind |-> "ListRolesets", cond |-> cond, secret |-> ListShape(cond)],
                  TRUE,
                  <<ListRolesetsCall(ctxDone, cond)>>,
                  ListRolesetsResponse(ListRolesetsResult(ctxDone, cond)))
    /\ UNCHANGED <<pc, runs, boot, cfg, mounts, engineConfig, store, mountCalls,
                   mountOks, live, gone>>

\* Handler.DeleteRoleset: the response.
DeleteRolesetResponse(name, err) ==
    IF name = "" THEN Response(400, [error |-> "Roleset name is required"])
    ELSE IF err # NoErr
         THEN Response(500, [error |-> "Failed to delete roleset", details |-> err])
    ELSE Response(200, [message |-> "Roleset deleted successfully",
                        data |-> [name |-> name]])

\* DELETE /api/v1/rolesets/:name
DeleteRoleset(name, cond) ==
    /\ Handling
    /\ LET reaches == Routed(name) /\ name # ""
           ctxDone == RequestContext(ReqDone(cond))
           call == DeleteRolesetCall(name, ctxDone, cond)
           err == IF reaches THEN DeleteRolesetResult(name, ctxDone, cond) ELSE NoErr
       IN  /\ Handle([kind |-> "DeleteRoleset", name |-> name, cond |-> cond],
                     reaches, IF reaches THEN <<call>> ELSE <<>>,
                     IF Routed(name) THEN DeleteRolesetResponse(name, err)
                     ELSE NotFoundResponse)
           /\ store' = IF reaches /\ err = NoErr THEN StoreAfterDelete(call.path) ELSE store
    /\ UNCHANGED <<pc, runs, boot, cfg, mounts, engineConfig, mountCalls, mountOks,
                   live, gone>>

\* Handler.HealthCheck: the response.
HealthStatus(err) == IF err # NoErr THEN 503 ELSE 200
HealthCheckResponse(err) ==
    IF err # NoErr
    THEN Response(HealthStatus(err), [error |-> "Service unavailable", details |-> err])
    ELSE Response(HealthStatus(err), [message |-> "Service is healthy"])

\* GET /health
HealthCheck(cond, initialized, sealed) ==
    /\ Handling
    /\ LET ctxDone == RequestContext(ReqDone(cond))
           probeErr == cond = "error"
           err == HealthCheckResult(ctxDone, probeErr, initialized, sealed)
       IN  Handle([kind |-> "HealthCheckRequest", result |-> err, cond |-> cond,
                   initialized |-> initialized, sealed |-> sealed],
                  TRUE, <<HealthCall(ctxDone, probeErr, initialized, sealed)>>,
                  HealthCheckResponse(err))
    /\ UNCHANGED <<pc, runs, boot, cfg, mounts, engineConfig, store, mountCalls,
                   mountOks, live, gone>>

\* main and the operator: the steps of a process start and stop.
Startup ==
    \/ \E c \in Settings, failed \in BOOLEAN : Load(c, failed)
    \/ \E failed \in BOOLEAN : NewClient(failed)
    \/ \E listErr, mountErr, readErr, writeErr \in BOOLEAN :
          Initialize(listErr, mountErr, readErr, writeErr)
    \/ \E ctxDone, probeErr, initialized, sealed \in BOOLEAN :
          StartupHealthCheck(ctxDone, probeErr, initialized, sealed)
    \/ \E failed \in BOOLEAN : ListenAndServe(failed)
    \/ \E n \in 0..MaxInFlight : Signal(n)
    \/ \E expired \in BOOLEAN : Shutdown(expired)
    \/ Restart

\* ------------------------------------------------------------------ inputs

\* The health requests: every reported state for a probe that returns, one
\* for a probe that does not (what it would have reported is not read).
HealthRequests ==
    ({"none"} \X BOOLEAN \X BOOLEAN) \cup ((HealthConds \ {"none"}) \X {TRUE} \X {FALSE})

\* The requests of the spec's end-to-end example: create, list, token, key and
\* delete for r1, with the example body and upstream's own answer.
ExampleCreates == {<<"r1", ExampleBody, "none">>}
ExampleTokens == {<<"r1", NoBody, "none">>}
ExampleKeys == {<<"r1", "none">>}
ExampleLists == {"none"}
ExampleDeletes == {<<"r1", "none">>}

\* Every request: each valid body, with every condition for the example body
\* and upstream's own answer for the others, and each body the handler
\* rejects; every condition for a token request without a body, upstream's own
\* answer for the other bodies; every condition for key, list and delete; one
\* request of each kind for the empty name.
Named == {name \in Names : Routed(name)}
Unnamed == Names \ Named
CreateRequests ==
    (Named \X {ExampleBody} \X (WriteConds \cup {"baddecode"}))
        \cup (Named \X (ValidCreateBodies \ {ExampleBody}) \X {"none"})
        \cup (Named \X InvalidCreateBodies \X {"none"})
        \cup (Unnamed \X {ExampleBody} \X {"none"})
TokenRequests ==
    (Named \X {NoBody} \X (ReadConds \cup {"emptytoken"}))
        \cup (Named \X (TokenBodies \ {NoBody}) \X {"none"})
        \cup (Unnamed \X {NoBody} \X {"none"})
KeyRequests == (Named \X ReadConds) \cup (Unnamed \X {"none"})
ListRequests == ListConds
DeleteRequests == (Named \X WriteConds) \cup (Unnamed \X {"none"})

\* ------------------------------------------------------------------- specs

\* The process from its construction over its restarts, serving the requests
\* of the end-to-end example and the health requests, each in its own
\* goroutine.
Next ==
    \/ Startup
    \/ \E r \in ExampleCreates : CreateRoleset(r[1], r[2], r[3])
    \/ \E r \in ExampleTokens : GetAccessToken(r[1], r[2], r[3])
    \/ \E r \in ExampleKeys : GetServiceAccountKey(r[1], r[2])
    \/ \E cond \in ExampleLists : ListRolesets(cond)
    \/ \E r \in ExampleDeletes : DeleteRoleset(r[1], r[2])
    \/ \E r \in HealthRequests : HealthCheck(r[1], r[2], r[3])
    \/ \E q \in BagToSet(pending) : Answer(q)

Spec == Init /\ [][Next]_vars

\* The same program with the progress main's shutdown has: server.Shutdown is
\* given a context that expires after 30 s, so it returns.
SpecLive == Spec /\ WF_vars(\E expired \in BOOLEAN : Shutdown(expired))

\* One process that went through startup and listens (setupRoutes), serving
\* every request, each in its own goroutine, until it is stopped.
InitServing ==
    /\ pc = "serving"
    /\ runs = 1
    /\ boot = <<Event("Load", NoErr), Event("NewClient", NoErr), Event("Initialize", NoErr),
                Event("HealthCheck", NoErr), Event("Listen", NoErr)>>
    /\ cfg \in Settings
    /\ mounts = {SecretMountKey, GcpxMountKey, GcpMountKey}
    /\ engineConfig = ConfigData(cfg, CredentialsFile)
    /\ store = {}
    /\ last = [kind |-> "Listen", result |-> NoErr]
    /\ calls = <<>>
    /\ resp = NoResp
    /\ mountCalls = 0
    /\ mountOks = 0
    /\ live = {}
    /\ gone = {}
    /\ inflight = 0
    /\ pending = NoPending
    /\ serial = TRUE

NextServing ==
    \/ \E failed \in BOOLEAN : ListenAndServe(failed)
    \/ \E n \in 0..MaxInFlight : Signal(n)
    \/ \E expired \in BOOLEAN : Shutdown(expired)
    \/ \E r \in CreateRequests : CreateRoleset(r[1], r[2], r[3])
    \/ \E r \in TokenRequests : GetAccessToken(r[1], r[2], r[3])
    \/ \E r \in KeyRequests : GetServiceAccountKey(r[1], r[2])
    \/ \E cond \in ListRequests : ListRolesets(cond)
    \/ \E r \in DeleteRequests : DeleteRoleset(r[1], r[2])
    \/ \E r \in HealthRequests : HealthCheck(r[1], r[2], r[3])
    \/ \E q \in BagToSet(pending) : Answer(q)

SpecServing == InitServing /\ [][NextServing]_vars

\* Client.CreateRoleset called directly, over the request values it accepts.
InitGateway ==
    /\ pc = "gateway"
    /\ runs = 1
    /\ boot = <<>>
    /\ cfg \in Settings \cup {Setting("", "", "3600s")}
    /\ mounts = {SecretMountKey, GcpMountKey}
    /\ engineConfig = NoData
    /\ store \in {{}, {"r2"}}
    /\ last = [kind |-> "none"]
    /\ calls = <<>>
    /\ resp = NoResp
    /\ mountCalls = 0
    /\ mountOks = 0
    /\ live = {}
    /\ gone = {}
    /\ inflight = 0
    /\ pending = NoPending
    /\ serial = TRUE

ClientCreateRoleset(name, req, cond) ==
    /\ pc = "gateway"
    /\ LET ctxDone == ReqDone(cond)
       IN  /\ calls' = <<CreateRolesetCall(cfg, name, req, ctxDone, cond)>>
           /\ store' = IF CreateRolesetResult(cfg, name, req, ctxDone, cond) = NoErr
                       THEN StoreAfterWrite(CreateRolesetCall(cfg, name, req, ctxDone, cond).path)
                       ELSE store
           /\ last' = [kind |-> "Client.CreateRoleset", name |-> name, body |-> req,
                       cond |-> cond,
                       result |-> CreateRolesetResult(cfg, name, req, ctxDone, cond)]
    /\ UNCHANGED <<pc, runs, boot, cfg, mounts, engineConfig, resp, mountCalls,
                   mountOks, live, gone, inflight, pending, serial>>

NextGateway ==
    \E name \in {"r1", "r2"}, req \in GatewayRequests, cond \in WriteConds :
        ClientCreateRoleset(name, req, cond)

SpecGateway == InitGateway /\ [][NextGateway]_vars

\* ------------------------------------------------------------------ claims

\* A listing has the gcp mount: a path equal to "gcp" once one trailing "/" is gone.
GcpListed(listing) == \E path \in listing : path = GcpPath \/ path = GcpPath \o Slash

IsMount(c) == c.op = "Mount"
IsConfigWrite(c) == c.op = "Write" /\ c.path = <<"gcp", "config">>
CallIndexes(P(_)) == {i \in 1..Len(calls) : P(calls[i])}

\* The mount step of the latest Initialize completed: the listing was read and
\* either showed the gcp mount or the Mount call succeeded.
MountStepOk ==
    /\ Len(calls) >= 1
    /\ calls[1].op = "ListMounts"
    /\ calls[1].err = NoErr
    /\ \/ GcpListed(last.listing)
       \/ Len(calls) >= 2 /\ IsMount(calls[2]) /\ calls[2].err = NoErr

\* C1, first part: when the listing Initialize read has the gcp mount, it
\* issues no Mount call and, if the write to gcp/config succeeded, returns nil.
NoRemount ==
    (last.kind = "Initialize" /\ last.listed /\ GcpListed(last.listing)) =>
        /\ CallIndexes(IsMount) = {}
        /\ (\E i \in CallIndexes(IsConfigWrite) : calls[i].err = NoErr) => last.result = NoErr

\* C1 (as amended): Initialize issues no Mount call when the listing has the
\* gcp mount and then succeeds if the configuration write does; over any number
\* of runs in a row at most one Mount call succeeds.
C1_InitializeIdempotent == NoRemount /\ mountOks <= 1

\* C1 (as stated): ... and over any number of runs in a row at most one Mount
\* call is issued in total.
C1_AtMostOneMountCall == NoRemount /\ mountCalls <= 1

\* C1 witness: a second start finds the mount the first start enabled, issues
\* no Mount call and succeeds.
C1_Witness ==
    /\ runs = 2
    /\ last.kind = "Initialize"
    /\ last.result = NoErr
    /\ GcpMountKey \in last.listing
    /\ mountOks = 1
    /\ mountCalls = 1

\* C2 (as stated): after a successful mount step Initialize always issues the
\* write to gcp/config, as its last call and after the mount step's calls.
C2_ConfigWriteAlways ==
    last.kind = "Initialize" =>
        /\ MountStepOk => CallIndexes(IsConfigWrite) # {}
        /\ \A i \in CallIndexes(IsConfigWrite) : i = Len(calls) /\ MountStepOk

\* C2 (as amended): after a successful mount step Initialize always calls
\* configureGCPEngine, which issues the write to gcp/config unless a configured
\* credentials file cannot be read (then no write is issued and Initialize
\* fails); the write is issued at most once, as the last call, and only after
\* the mount step has completed.
C2_ConfigWriteAfterMount ==
    last.kind = "Initialize" =>
        /\ (MountStepOk /\ last.credentialsRead) => CallIndexes(IsConfigWrite) # {}
        /\ ~last.credentialsRead =>
              /\ CallIndexes(IsConfigWrite) = {}
              /\ last.result # NoErr
        /\ Cardinality(CallIndexes(IsConfigWrite)) <= 1
        /\ \A i \in CallIndexes(IsConfigWrite) :
              /\ i = Len(calls)
              /\ MountStepOk
              /\ \A j \in 1..(i - 1) :
                    calls[j].op \in {"ListMounts", "Mount"} /\ calls[j].err = NoErr

\* C2 witness: on a second start the mount pre-exists (the first start enabled
\* it) and the configuration is written again, with the settings now loaded.
C2_Witness ==
    /\ runs = 2
    /\ mountOks = 1
    /\ last.kind = "Initialize"
    /\ Len(calls) = 2
    /\ IsConfigWrite(calls[2])
    /\ calls[2].err = NoErr
    /\ engineConfig.ttl = cfg.DefaultTTL

StartupOk ==
    <<Event("Load", NoErr), Event("NewClient", NoErr), Event("Initialize", NoErr),
      Event("HealthCheck", NoErr)>>
StartupSteps == {"Load", "NewClient", "Initialize", "HealthCheck"}

\* C3: the listener is started only after Load, NewClient, Initialize and one
\* HealthCheck each succeeded, in that order and once each; requests are
\* answered only then; a failed startup step ends the process with no listener.
C3_ListenAfterProvisioning ==
    /\ (\E i \in 1..Len(boot) : boot[i].step = "Listen") =>
          /\ Len(boot) >= 5
          /\ SubSeq(boot, 1, 4) = StartupOk
          /\ boot[5].step = "Listen"
          /\ \A i \in 6..Len(boot) : boot[i].step \in {"Serve", "Shutdown"}
    /\ pc = "serving" => boot = StartupOk \o <<Event("Listen", NoErr)>>
    /\ resp # NoResp => SubSeq(boot, 1, 5) = StartupOk \o <<Event("Listen", NoErr)>>
    /\ (\E i \in 1..Len(boot) : boot[i].step \in StartupSteps /\ ~boot[i].ok) =>
          /\ pc = "exited"
          /\ \A i \in 1..Len(boot) : boot[i].step # "Listen"

\* C3 witness: a request is answered by a process that went through startup.
C3_Witness ==
    /\ pc = "serving"
    /\ last.kind = "ListRolesets"
    /\ resp.status = 200

InSeq(x, sq) == \E i \in 1..Len(sq) : sq[i] = x

RequestKinds ==
    {"CreateRoleset", "ListRolesets", "DeleteRoleset", "GetAccessToken",
     "GetServiceAccountKey"}

C6_UpstreamErrorEnvelope ==
    (/\ last.kind \in RequestKinds
     /\ Len(calls) = 1
     /\ calls[1].err = UpstreamErr) =>
        /\ resp.status = 500
        /\ DOMAIN resp.body = {"error", "details"}
        /\ resp.body.details[Len(resp.body.details)] = UpstreamErr[1]

\* C7: every gateway operation a request invokes runs under the request's
\* context: when that context is done the upstream call is aborted and the
\* request is answered with a failure.
C7_RequestContextBounds ==
    (/\ last.kind \in RequestKinds \cup {"HealthCheckRequest"}
     /\ last.cond = "ctxdone"
     /\ Len(calls) = 1) =>
        /\ calls[1].err = CtxErr
        /\ resp.status >= 500

\* C8: in the payload CreateRoleset writes to gcp/roleset/{name}, token_scopes
\* is the caller's value when that is not empty; otherwise the configured
\* default when secret_type is access_token; otherwise it is absent.
C8_TokenScopes ==
    last.kind = "Client.CreateRoleset" =>
        /\ Len(calls) = 1
        /\ calls[1].op = "Write"
        /\ calls[1].path = <<"gcp", "roleset", last.name>>
        /\ IF last.body.token_scopes # ""
           THEN /\ "token_scopes" \in DOMAIN calls[1].data
                /\ calls[1].data.token_scopes = last.body.token_scopes
           ELSE IF last.body.secret_type = "access_token"
                THEN /\ "token_scopes" \in DOMAIN calls[1].data
                     /\ calls[1].data.token_scopes = cfg.DefaultTokenScopes
                ELSE "token_scopes" \notin DOMAIN calls[1].data

\* C8 witness: a service_account_key roleset without scopes is written without
\* token_scopes.
C8_Witness ==
    /\ last.kind = "Client.CreateRoleset"
    /\ last.body.secret_type = "service_account_key"
    /\ last.body.token_scopes = ""
    /\ DOMAIN calls[1].data = {"project", "secret_type"}
    /\ calls[1].err = NoErr

\* The upstream call of the latest request succeeded and returned no secret
\* or a secret without data.
EmptyAnswer ==
    /\ Len(calls) = 1
    /\ calls[1].err = NoErr
    /\ last.secret \in {"nil", "nildata"}

\* C9: when the upstream call succeeds but returns no secret or no data, the
\* list endpoint answers 200 with an empty sequence and count 0, and the token
\* and key endpoints answer 500.
C9_EmptyResultPolicy ==
    /\ (last.kind = "ListRolesets" /\ EmptyAnswer) =>
          /\ resp.status = 200
          /\ resp.body.data.rolesets = <<>>
          /\ resp.body.data.count = 0
    /\ (last.kind \in {"GetAccessToken", "GetServiceAccountKey"} /\ EmptyAnswer) =>
          /\ resp.status = 500
          /\ "details" \in DOMAIN resp.body

\* C9 witness: a token request whose upstream read returned a secret without data.
C9_Witness ==
    /\ last.kind = "GetAccessToken"
    /\ last.cond = "nildata"
    /\ last.secret = "nildata"
    /\ resp.status = 500
    /\ resp.body.details = <<"no token data returned">>

\* C10: HealthCheck returns nil exactly when the probe returned without error
\* and reported initialized and not sealed; GET /health answers 200 exactly
\* then and 503 otherwise.
C10_HealthCheck ==
    /\ last.kind = "HealthCheck" =>
          (last.result = NoErr <=>
              (~last.ctxDone /\ ~last.probeErr /\ last.initialized /\ ~last.sealed))
    /\ last.kind = "HealthCheckRequest" =>
          LET healthy == last.cond = "none" /\ last.initialized /\ ~last.sealed
          IN  /\ last.result = NoErr <=> healthy
              /\ resp.status = 200 <=> healthy
              /\ resp.status = 503 <=> ~healthy

\* C10 witness: the probe call succeeds and reports sealed; GET /health answers 503.
C10_Witness ==
    /\ last.kind = "HealthCheckRequest"
    /\ last.cond = "none"
    /\ last.initialized
    /\ last.sealed
    /\ calls[1].err = NoErr
    /\ resp.status = 503

\* C11: for a token request on roleset n the gateway issues a write to
\* gcp/token/n carrying {ttl: override} exactly when the body decodes to a
\* non-empty ttl; with no body, an empty ttl or a body that fails to decode
\* it issues a plain read of gcp/token/n, and the answer is never a 400.
C11_TokenTTLOverride ==
    (last.kind = "GetAccessToken" /\ last.name # "") =>
        LET override == TokenDecodes(last.body) /\ last.body.ttl # ""
        IN  /\ Len(calls) = 1
            /\ calls[1].path = <<"gcp", "token", last.name>>
            /\ override =>
                  calls[1].op = "Write" /\ calls[1].data = [ttl |-> last.body.ttl]
            /\ ~override => calls[1].op = "Read" /\ calls[1].data = NoData
            /\ resp.status # 400

\* C11, for the bodies that decode or store nothing: the write carries the
\* ttl exactly when the stored ttl is non-empty, and no answer is a 400.
C11_StoredTTLOverride ==
    (last.kind = "GetAccessToken" /\ last.name # "") =>
        LET override == TokenTTL(last.body) # ""
        IN  /\ Len(calls) = 1
            /\ calls[1].path = <<"gcp", "token", last.name>>
            /\ override =>
                  calls[1].op = "Write" /\ calls[1].data = [ttl |-> last.body.ttl]
            /\ ~override => calls[1].op = "Read" /\ calls[1].data = NoData
            /\ resp.status # 400
            /\ last.body.json # "typeerror" =>
                  (override <=> (TokenDecodes(last.body) /\ last.body.ttl # ""))

\* One step of the process, seen from its shutdown: while it serves, the
\* process leaves that state only for server.Shutdown, on a signal, or because
\* the listener failed; once server.Shutdown runs no request is accepted,
\* every request that leaves the requests in flight is answered by its
\* handler, and the process exits without error exactly when none is left, by
\* the expired bound otherwise.
ShutdownStep ==
    /\ pc = "serving" => pc' \in {"serving", "draining", "exited"}
    /\ (pc \in {"listen", "serving"} /\ pc' = "draining") =>
          /\ last'.kind = "Signal"
          /\ inflight' \in 0..MaxInFlight
          /\ pc = "listen" => inflight' = 0
    /\ pc = "draining" =>
          /\ pc' \in {"draining", "exited"}
          /\ inflight' <= inflight
          /\ BagCardinality(pending') <= inflight'
          /\ (pc' = "draining" /\ inflight' < inflight) =>
                /\ inflight' = inflight - 1
                /\ last'.kind \in RequestKinds \cup {"HealthCheckRequest"}
                /\ resp'.status \in 200..599
          /\ pc' = "exited" =>
                /\ last'.kind = "Shutdown"
                /\ last'.result = NoErr <=> inflight = 0
    /\ (pc' = "exited" /\ pc \notin {"exited", "draining"}) =>
          /\ last'.kind \in {"Load", "NewClient", "Initialize", "HealthCheck", "Listen"}
          /\ last'.result # NoErr

\* C12: once a termination signal is received the server accepts no new
\* request, the requests in flight may finish within the shutdown bound, and
\* the process then exits; the process does not exit while serving unless a
\* signal was received or the listener failed.
C12_GracefulShutdown ==
    /\ [][ShutdownStep]_vars
    /\ (pc = "draining") ~> (pc = "exited")

\* C12 witness: a request that was in flight when the signal arrived has been
\* answered with a 200 while server.Shutdown waits, and none is left.
C12_Witness ==
    /\ pc = "draining"
    /\ inflight = 0
    /\ last.kind \in RequestKinds
    /\ resp.status = 200

\* The one upstream call that corresponds to the operation of a request.
CorrespondingCall(c) ==
    CASE last.kind = "CreateRoleset" ->
            c.op = "Write" /\ c.path = <<"gcp", "roleset", last.name>>
      [] last.kind = "ListRolesets" -> c.op = "List" /\ c.path = <<"gcp", "roleset">>
      [] last.kind = "DeleteRoleset" ->
            c.op = "Delete" /\ c.path = <<"gcp", "roleset", last.name>>
      [] last.kind = "GetAccessToken" ->
            c.op \in {"Read", "Write"} /\ c.path = <<"gcp", "token", last.name>>
      [] last.kind = "GetServiceAccountKey" ->
            c.op = "Read" /\ c.path = <<"gcp", "key", last.name>>
\* An error text carries err when err is the tail of its chain of messages.
Carries(text, err) ==
    /\ Len(text) >= Len(err)
    /\ SubSeq(text, Len(text) - Len(err) + 1, Len(text)) = err
RespErrorText == IF "details" \in DOMAIN resp.body THEN resp.body.details ELSE resp.body.error

NonEmptyMappingSupplied ==
    last.body.bindings.kind = "map" /\ last.body.bindings.pairs # {}

\* C14: in the payload CreateRoleset writes upstream, bindings is present
\* exactly when the caller supplied a non-empty mapping, ttl exactly when the
\* caller supplied a non-empty ttl, max_ttl exactly when the caller supplied a
\* non-empty max_ttl; project and secret_type are always present and copied.
C14_OptionalFields ==
    (last.kind \in {"CreateRoleset", "Client.CreateRoleset"} /\ Len(calls) = 1) =>
        LET data == calls[1].data
        IN  /\ {"project", "secret_type"} \subseteq DOMAIN data
            /\ data.project = last.body.project
            /\ data.secret_type = last.body.secret_type
            /\ "bindings" \in DOMAIN data <=> NonEmptyMappingSupplied
            /\ "ttl" \in DOMAIN data <=> last.body.ttl # ""
            /\ "ttl" \in DOMAIN data => data.ttl = last.body.ttl
            /\ "max_ttl" \in DOMAIN data <=> last.body.max_ttl # ""
            /\ "max_ttl" \in DOMAIN data => data.max_ttl = last.body.max_ttl

\* C14 witness: a request with an empty mapping as bindings, a ttl and no
\* max_ttl is written upstream with project, secret_type and ttl alone.
C14_Witness ==
    /\ last.kind = "Client.CreateRoleset"
    /\ last.body.bindings = MapBindings({})
    /\ last.body.ttl = "600s"
    /\ last.body.max_ttl = ""
    /\ last.body.token_scopes = ""
    /\ last.body.secret_type = "service_account_key"
    /\ Len(calls) = 1
    /\ calls[1].err = NoErr
    /\ calls[1].data = [project |-> "p", secret_type |-> "service_account_key", ttl |-> "600s"]

\* The upstream call of the latest request returned without error.
CallReturned == Len(calls) = 1 /\ calls[1].err = NoErr

\* The latest request was answered by the recovery wrapper: 500 with the
\* generic envelope and nothing else, the process still handling requests,
\* and a further request can be served while it listens.
Recovered ==
    /\ resp = Response(500, [error |-> "Internal server error"])
    /\ pc \in {"serving", "draining"}
    /\ pc = "serving" => ENABLED ListRolesets("none")

\* C15 (as stated): a fault while handling a request, including a type
\* assertion on an upstream answer whose token or key fields or list keys are
\* missing or of the wrong shape, is answered 500 with the generic envelope
\* for that request only, and the process keeps serving.
C15_FaultsAnswered500 ==
    /\ (last.kind \in {"GetAccessToken", "GetServiceAccountKey"}
            /\ CallReturned /\ last.cond = "badfield") => Recovered
    /\ (last.kind = "ListRolesets" /\ CallReturned
            /\ last.cond \in {"nokeys", "badelem"}) => Recovered

\* C15 (as amended): the same, the list answer faulting only on a key that is
\* not a string; an answer without keys, or whose keys are not a list, is no
\* fault and is answered 200 with the empty list.
C15_PanicsRecovered ==
    /\ (last.kind \in {"GetAccessToken", "GetServiceAccountKey"}
            /\ CallReturned /\ last.cond = "badfield") => Recovered
    /\ (last.kind = "ListRolesets" /\ CallReturned /\ last.cond = "badelem") => Recovered
    /\ (last.kind = "ListRolesets" /\ CallReturned /\ last.cond = "nokeys") =>
          /\ resp.status = 200
          /\ resp.body.data.rolesets = <<>>

\* C15 witness: a key request whose upstream answer lacks a field was answered
\* by the recovery wrapper and the process still listens.
C15_Witness ==
    /\ last.kind = "GetServiceAccountKey"
    /\ last.cond = "badfield"
    /\ CallReturned
    /\ resp = PanicResponse
    /\ pc = "serving"

\* The latest Initialize met no failure: the listing was read, the
\* credentials file (if any) was read, and upstream refused no call for a
\* reason of its own (a Mount refused as a duplicate is not such a failure).
NoStartupFailure ==
    /\ last.listed
    /\ last.credentialsRead
    /\ \A i \in 1..Len(calls) : calls[i].err # UpstreamErr

\* C16: when listing the mounts or enabling the mount fails, gcp/config is
\* not written; when the configuration step fails after the mount was
\* enabled, the mount stays enabled; and in whichever state earlier startups
\* left upstream, an Initialize that meets no failure issues Mount exactly
\* when the gcp mount is absent, writes gcp/config with the current settings
\* and succeeds.
C16_RestartableProvisioning ==
    last.kind = "Initialize" =>
        /\ (~last.listed \/ \E i \in CallIndexes(IsMount) : calls[i].err # NoErr) =>
              /\ CallIndexes(IsConfigWrite) = {}
              /\ last.result # NoErr
        /\ ((GcpListed(last.listing) \/ \E i \in CallIndexes(IsMount) : calls[i].err = NoErr)
                /\ last.result # NoErr) => GcpListed(mounts)
        /\ NoStartupFailure =>
              /\ last.result = NoErr
              /\ CallIndexes(IsMount) # {} <=> ~GcpListed(last.listing)
              /\ \E i \in CallIndexes(IsConfigWrite) :
                    /\ calls[i].data = ConfigData(cfg, CredentialsFile)
                    /\ calls[i].err = NoErr
              /\ engineConfig = ConfigData(cfg, CredentialsFile)
              /\ GcpListed(mounts)

\* C16 witness: the first start's Mount call failed; the second start found
\* no gcp mount, enabled it, wrote gcp/config and succeeded.
C16_Witness ==
    /\ last.kind = "Initialize"
    /\ runs = 2
    /\ mountCalls = 2
    /\ mountOks = 1
    /\ NoStartupFailure
    /\ last.result = NoErr
    /\ engineConfig = ConfigData(cfg, CredentialsFile)

====
